---- MODULE Spec2Model ----
(***************************************************************************)
(* RemoveRedundantCasts (c2rust-refactor/src/transform/casts.rs).          *)
(*                                                                         *)
(* Three specifications share this module:                                 *)
(*   SpecCast  check_double_cast applied to a triple of SimpleTy and the   *)
(*             value every cast of the triple computes at run time.        *)
(*   Spec      the transform closure visiting the Cast nodes of a chain    *)
(*             of casts over an opaque typed operand, twice in a row.      *)
(*   SpecLit   the transform closure visiting `lit as T` and `-lit as T`   *)
(*             for integer literals (replace_suffix, eval_const, as_ty).   *)
(*                                                                         *)
(* Numbers of up to 128 bits are sets of bit positions: the set holds k    *)
(* exactly when bit k of the number is 1.                                  *)
(***************************************************************************)
EXTENDS Naturals, Sequences, FiniteSets, TLC

VARIABLES
    e_ty, t1_ty, t2_ty,   \* check_double_cast's arguments
    ptr_width,            \* bits of isize, usize and pointers on the target
    v,                    \* a run-time value of type e_ty
    pc,                   \* position of the double-cast check
    inner_cast, outer_cast, \* the two CastKinds check_double_cast computes
    action,               \* the DoubleCastAction returned
    orig_val, new_val,    \* run-time value of the double cast, of its replacement
    ast,                  \* the expression the transform rewrites
    input,                \* the expression as it was before the first run
    out1,                 \* the expression the first run produced
    run,                  \* 1, 2: the run in progress; 3: both are over
    pos,                  \* the Cast node visited next (1 is the innermost)
    overflow_checks,      \* the build panics on arithmetic overflow
    panicked,             \* "none", or the panic that ended the run
    last                  \* what the last visit of a Cast node did

castVars ==
    <<e_ty, t1_ty, t2_ty, ptr_width, v, pc, inner_cast, outer_cast, action, orig_val, new_val>>

transformVars == <<ast, input, out1, run, pos, overflow_checks, panicked, last>>

vars == <<castVars, transformVars>>

----------------------------------------------------------------------------
(* Bounds *)

\* Bit positions 0 .. LowBits-1 vary in the run-time values, next to the
\* top bit of every integer width.
LowBits == 1

\* The longest chain of casts the transform is run on.
MaxDepth == 3

----------------------------------------------------------------------------
(* enum SimpleTy *)

Int(w, s) == [tag |-> "Int", w |-> w, s |-> s]
Size(s) == [tag |-> "Size", w |-> 0, s |-> s]
Float32 == [tag |-> "Float32", w |-> 0, s |-> FALSE]
Float64 == [tag |-> "Float64", w |-> 0, s |-> FALSE]
Pointer == [tag |-> "Pointer", w |-> 0, s |-> FALSE]
Other == [tag |-> "Other", w |-> 0, s |-> FALSE]

IntWidths == {8, 16, 32, 64, 128}

IntLikeTys ==
    {Int(w, s) : w \in IntWidths, s \in BOOLEAN} \cup {Size(TRUE), Size(FALSE), Pointer}

SimpleTys == IntLikeTys \cup {Float32, Float64, Other}

is_signed(ty) ==
    IF ty.tag \in {"Int", "Size"} THEN ty.s
    ELSE ty.tag \in {"Float32", "Float64"}

----------------------------------------------------------------------------
(* enum CastKind, fn cast_kind *)

Extend(s) == [kind |-> "Extend", s |-> s]
Truncate == [kind |-> "Truncate", s |-> FALSE]
SameWidth == [kind |-> "SameWidth", s |-> FALSE]
FromPointer(s) == [kind |-> "FromPointer", s |-> s]
ToPointer(s) == [kind |-> "ToPointer", s |-> s]
Unknown == [kind |-> "Unknown", s |-> FALSE]

\* The arm for a 32-bit integer cast into a size or pointer type.
int_to_pointer_kind(from_ty, to_ty) ==
    IF to_ty.tag = "Size" THEN ToPointer(to_ty.s) ELSE ToPointer(FALSE)

\* The arm for a size or pointer type cast into a 32-bit integer.
pointer_to_int_kind(from_ty, to_ty) ==
    IF from_ty.tag = "Size" THEN FromPointer(from_ty.s) ELSE FromPointer(FALSE)

cast_kind(from_ty, to_ty) ==
    LET f == from_ty.tag
        t == to_ty.tag
        fw == from_ty.w
        tw == to_ty.w
        fs == from_ty.s
        SizeOrPtr == {"Size", "Pointer"}
    IN  IF f = "Int" /\ t = "Int" /\ fw < tw THEN Extend(fs)
        ELSE IF f = "Int" /\ t = "Int" /\ fw > tw THEN Truncate
        ELSE IF f = "Int" /\ t = "Int" THEN SameWidth
        \* Into size/pointer
        ELSE IF f = "Int" /\ t \in SizeOrPtr /\ fw <= 16 THEN Extend(fs)
        ELSE IF f = "Int" /\ t \in SizeOrPtr /\ fw >= 64 THEN Truncate
        ELSE IF f = "Int" /\ t \in SizeOrPtr THEN int_to_pointer_kind(from_ty, to_ty)
        \* From size/pointer
        ELSE IF f = "Size" /\ t = "Int" /\ tw >= 64 THEN Extend(fs)
        ELSE IF f = "Pointer" /\ t = "Int" /\ tw >= 64 THEN Extend(FALSE)
        ELSE IF f \in SizeOrPtr /\ t = "Int" /\ tw <= 16 THEN Truncate
        ELSE IF f \in SizeOrPtr /\ t = "Int" THEN pointer_to_int_kind(from_ty, to_ty)
        \* Pointer-to-size and vice versa
        ELSE IF f \in SizeOrPtr /\ t \in SizeOrPtr THEN SameWidth
        ELSE IF f = "Float32" /\ t = "Float32" THEN SameWidth
        ELSE IF f = "Float32" /\ t = "Float64" THEN Extend(TRUE)
        ELSE IF f = "Float64" /\ t = "Float32" THEN Truncate
        ELSE IF f = "Float64" /\ t = "Float64" THEN SameWidth
        ELSE Unknown

----------------------------------------------------------------------------
(* enum DoubleCastAction, fn check_double_cast *)

RemoveBoth == "RemoveBoth"
RemoveInner == "RemoveInner"
KeepBoth == "KeepBoth"

\* Mutant of double_cast_action: the catch-all RemoveInner arm for an outer
\* SameWidth or Truncate is matched before the RemoveBoth arm.
double_cast_action_reordered(inner, outer, e, t2) ==
    LET i == inner.kind
        o == outer.kind
    IN  IF o = "SameWidth" \/ o = "Truncate"
        THEN RemoveInner
        ELSE IF /\ \/ i = "Extend" /\ o = "Extend"
                   \/ i = "SameWidth" /\ o = "Extend"
                   \/ i = "SameWidth" /\ o = "FromPointer"
                   \/ i = "SameWidth" /\ o = "ToPointer"
                /\ outer.s = is_signed(e)
        THEN RemoveInner
        ELSE KeepBoth

\* the match of lines 127-141 on (inner_cast, outer_cast)
double_cast_action(inner, outer, e, t2) ==
    LET i == inner.kind
        o == outer.kind
    IN  IF /\ \/ i = "SameWidth" /\ o = "SameWidth"
              \/ i = "Extend" /\ o = "Truncate"
           /\ e = t2
        THEN RemoveBoth
        ELSE IF /\ \/ i = "Extend" /\ o = "Extend"
                   \/ i = "SameWidth" /\ o = "Extend"
                   \/ i = "SameWidth" /\ o = "FromPointer"
                   \/ i = "SameWidth" /\ o = "ToPointer"
                /\ outer.s = is_signed(e)
        THEN RemoveInner
        ELSE IF o = "SameWidth" \/ o = "Truncate"
        THEN RemoveInner
        ELSE KeepBoth

check_double_cast(e, t1, t2) ==
    double_cast_action(cast_kind(e, t1), cast_kind(t1, t2), e, t2)

----------------------------------------------------------------------------
(* Run-time semantics of `x as T` between integer-like types (the Rust     *)
(* language, as the soundness property states it): truncate to the low     *)
(* bits of the target, extend by the signedness of the type cast from.     *)

PtrWidths == {32, 64}

bit_width(ty, pw) == IF ty.tag = "Int" THEN ty.w ELSE pw

as_cast(x, from_ty, to_ty, pw) ==
    LET fw == bit_width(from_ty, pw)
        tw == bit_width(to_ty, pw)
    IN  IF tw <= fw THEN {b \in x : b < tw}
        ELSE IF is_signed(from_ty) /\ (fw - 1) \in x THEN x \cup (fw .. (tw - 1))
        ELSE x

\* The top bit of every width, and the low bits: every cast treats the bits
\* between two width boundaries alike.
KeyBits(w) == {b \in {7, 15, 31, 63, 127} \cup (0 .. (LowBits - 1)) : b < w}

ValuesOf(ty, pw) == SUBSET KeyBits(bit_width(ty, pw))

----------------------------------------------------------------------------
(* Static types (ty::Ty after normalize_erasing_regions) and their         *)
(* lowering to SimpleTy.                                                   *)

IntTys == {"isize", "i8", "i16", "i32", "i64", "i128"}
UintTys == {"usize", "u8", "u16", "u32", "u64", "u128"}
FloatTys == {"f32", "f64"}
PtrTys == {"*const u8", "*mut u8", "&u8", "fn()"}
OtherTys == {"bool"}

Tys == IntTys \cup UintTys \cup FloatTys \cup PtrTys \cup OtherTys

\* IntTy::bit_width, UintTy::bit_width (None for isize and usize)
ty_bit_width(ty) ==
    CASE ty \in {"i8", "u8"} -> 8
      [] ty \in {"i16", "u16"} -> 16
      [] ty \in {"i32", "u32"} -> 32
      [] ty \in {"i64", "u64"} -> 64
      [] ty \in {"i128", "u128"} -> 128

\* impl From<ty::Ty> for SimpleTy
simple_ty(ty) ==
    IF ty = "isize" THEN Size(TRUE)
    ELSE IF ty = "usize" THEN Size(FALSE)
    ELSE IF ty \in IntTys THEN Int(ty_bit_width(ty), TRUE)
    ELSE IF ty \in UintTys THEN Int(ty_bit_width(ty), FALSE)
    ELSE IF ty = "f32" THEN Float32
    ELSE IF ty = "f64" THEN Float64
    ELSE IF ty \in PtrTys THEN Pointer
    ELSE Other

----------------------------------------------------------------------------
(* 128-bit arithmetic on sets of bit positions                             *)

Bits128 == 0 .. 127

\* 2^k - 1
Below(k) == {b \in Bits128 : b < k}

MaxBit(x) == CHOOSE b \in x : \A c \in x : c <= b

\* x <= y as unsigned numbers: the highest bit they differ in is y's
Leq(x, y) ==
    LET d == (x \ y) \cup (y \ x)
    IN  d = {} \/ MaxBit(d) \in y

\* `x as uN as u128` (signed = FALSE), `x as iN as i128` (signed = TRUE)
int_cast(x, w, signed) ==
    LET low == {b \in x : b < w}
    IN  IF signed /\ (w - 1) \in low THEN low \cup (w .. 127) ELSE low

\* x + 1, wrapping at 2^128
Increment(x) ==
    LET zeros == Bits128 \ x
    IN  IF zeros = {} THEN {}
        ELSE LET z == CHOOSE b \in zeros : \A c \in zeros : b <= c
             IN  {b \in x : b > z} \cup {z}

\* two's complement negation of a 128-bit pattern: -x = !x + 1
wrapping_neg(x) == Increment(Bits128 \ x)

\* i128::min_value(), the only value `-i` overflows on
I128Min == {127}

----------------------------------------------------------------------------
(* Expressions: a chain of casts over an operand.  casts[1] is the target  *)
(* type of the innermost Cast node, casts[Len(casts)] of the outermost.    *)
(* The operand (leaf) is an integer literal ("Lit"), a negated integer     *)
(* literal ("NegLit") or any other expression ("Var"); leaf.ty is the type *)
(* the type oracle (adjusted_node_type) gives for it.                      *)

NoSuffix == "unsuffixed"

VarLeaf(ty) == [kind |-> "Var", ty |-> ty, val |-> {}, suf |-> ""]
LitLeaf(kind, ty, val, suf) == [kind |-> kind, ty |-> ty, val |-> val, suf |-> suf]

Expr(leaf, casts) == [leaf |-> leaf, casts |-> casts]

\* cx.adjusted_node_type of the node that holds the k innermost casts
node_type(x, k) == IF k = 0 THEN x.leaf.ty ELSE x.casts[k]

RemoveAt(s, i) == SubSeq(s, 1, i - 1) \o SubSeq(s, i + 1, Len(s))

----------------------------------------------------------------------------
(* fn replace_suffix, integer literals                                     *)
(* (the LitKind::Float and TyKind::Float arms, lines 307-342, are outside  *)
(* the inputs this model draws: SpecLit casts integer literals to          *)
(* non-float types)                                                        *)

NoLit == [some |-> FALSE, val |-> {}, suf |-> ""]
SomeLit(val, suf) == [some |-> TRUE, val |-> val, suf |-> suf]

\* Mutant of suffix_max: the isize and usize arms admit every 32-bit value.
suffix_max_platform(ty) ==
    CASE ty = "isize" -> Below(31)
      [] ty = "i8" -> Below(7)
      [] ty = "i16" -> Below(15)
      [] ty = "i32" -> Below(31)
      [] ty = "i64" -> Below(63)
      [] ty = "i128" -> Below(127)
      [] ty = "usize" -> Below(32)
      [] ty = "u8" -> Below(8)
      [] ty = "u16" -> Below(16)
      [] ty = "u32" -> Below(32)
      [] ty = "u64" -> Below(64)
      [] ty = "u128" -> Below(128)

\* iN::max_value() as u128, uN::max_value() as u128 of the guard of each arm
suffix_max(ty) ==
    CASE ty = "isize" -> Below(15)
      [] ty = "i8" -> Below(7)
      [] ty = "i16" -> Below(15)
      [] ty = "i32" -> Below(31)
      [] ty = "i64" -> Below(63)
      [] ty = "i128" -> Below(127)
      [] ty = "usize" -> Below(16)
      [] ty = "u8" -> Below(8)
      [] ty = "u16" -> Below(16)
      [] ty = "u32" -> Below(32)
      [] ty = "u64" -> Below(64)
      [] ty = "u128" -> Below(128)

replace_suffix(lit, ty) ==
    IF ty \in IntTys \cup UintTys
    THEN IF ty = "u128" \/ Leq(lit.val, suffix_max(ty))
         THEN SomeLit(lit.val, ty)
         ELSE NoLit
    ELSE NoLit

----------------------------------------------------------------------------
(* enum ConstantValue, ConstantValue::as_ty, fn eval_const                 *)
(* An Option<ConstantValue> is a record; `panic` names the panic that      *)
(* ended the evaluation instead of a result.                               *)

NoConst == [some |-> FALSE, tag |-> "", bits |-> {}, panic |-> "none"]
SomeConst(tag, bits) == [some |-> TRUE, tag |-> tag, bits |-> bits, panic |-> "none"]
PanicConst(why) == [some |-> FALSE, tag |-> "", bits |-> {}, panic |-> why]

\* the width the int_matches! table and eval_const give each integer type
const_width(ty) == IF ty \in {"isize", "usize"} THEN 16 ELSE ty_bit_width(ty)

\* Mutant of as_ty: the result keeps the tag of the value cast.
as_ty_keeps_tag(c, ty) ==
    IF ty \in IntTys THEN SomeConst(c.tag, int_cast(c.bits, const_width(ty), TRUE))
    ELSE IF ty \in UintTys THEN SomeConst(c.tag, int_cast(c.bits, const_width(ty), FALSE))
    ELSE PanicConst("unreachable")

as_ty(c, ty) ==
    IF ty \in IntTys THEN SomeConst("Int", int_cast(c.bits, const_width(ty), TRUE))
    ELSE IF ty \in UintTys THEN SomeConst("Uint", int_cast(c.bits, const_width(ty), FALSE))
    ELSE PanicConst("unreachable")

\* the ExprKind::Lit arm
eval_lit(lit) ==
    IF lit.suf = NoSuffix THEN SomeConst("Uint", lit.val)
    ELSE IF lit.suf \in IntTys
    THEN SomeConst("Int", int_cast(lit.val, const_width(lit.suf), TRUE))
    ELSE SomeConst("Uint", int_cast(lit.val, const_width(lit.suf), FALSE))

\* the ExprKind::Unary(UnOp::Neg, _) arm.  `-i` on i128::min_value() panics
\* in a build with overflow checks and wraps in a build without.
eval_neg(ic, checks) ==
    IF ic.tag = "Uint"
    THEN IF 127 \in ic.bits THEN NoConst
         ELSE SomeConst("Int", wrapping_neg(ic.bits))
    ELSE IF ic.bits = I128Min /\ checks THEN PanicConst("overflow")
    ELSE SomeConst("Int", wrapping_neg(ic.bits))

RECURSIVE eval_const(_, _)
eval_const(x, checks) ==
    IF x.casts # <<>>
    THEN LET n == Len(x.casts)
             ic == eval_const(Expr(x.leaf, SubSeq(x.casts, 1, n - 1)), checks)
         IN  IF ic.some THEN as_ty(ic, x.casts[n]) ELSE ic
    ELSE IF x.leaf.kind = "Lit" THEN eval_lit(x.leaf)
    ELSE IF x.leaf.kind = "NegLit"
    THEN LET ic == eval_lit(x.leaf)
         IN  IF ic.some THEN eval_neg(ic, checks) ELSE ic
    ELSE PanicConst("unreachable")

----------------------------------------------------------------------------
(* RemoveRedundantCasts::transform: the closure run on one Cast node       *)

\* Mutant of same_ty: the redundant-cast check never fires.
same_ty_never(oe_ty, ot_ty) == FALSE

\* line 36: `oe_ty == ot_ty`
same_ty(oe_ty, ot_ty) == oe_ty = ot_ty

\* Mutant of consts_agree: only `new_const.is_some()` is checked.
consts_agree_unchecked(new_const, ast_const) == new_const.some

\* lines 72 and 89: `new_const.is_some() && new_const == ast_const`
consts_agree(new_const, ast_const) ==
    /\ new_const.some
    /\ ast_const.some
    /\ new_const.tag = ast_const.tag
    /\ new_const.bits = ast_const.bits

\* What a visit did: the node (k) and the expression it was run on
\* (before), the arm taken (rule), the types resolved, replace_suffix's
\* result, the two constants compared, and every UnaryNegate evaluated
\* (negs: operand and result).
NoVisit ==
    [k |-> 0, rule |-> "none", before |-> Expr(VarLeaf("bool"), <<>>),
     oe_ty |-> "", ot_ty |-> "", ie_ty |-> "", it_ty |-> "",
     new_lit |-> NoLit, ast_const |-> NoConst, new_const |-> NoConst, negs |-> <<>>]

\* The visit of Cast node k of x: the rewritten expression, the node the
\* traversal visits next, the panic that ended the run, what was done.
Outcome(x, next, panic, k, rule, ie_ty, it_ty, new_lit, ast_const, new_const) ==
    [ast |-> x, next |-> next, panic |-> panic,
     did |-> [k |-> k, rule |-> rule, before |-> x,
              oe_ty |-> "", ot_ty |-> "", ie_ty |-> ie_ty, it_ty |-> it_ty,
              new_lit |-> new_lit, ast_const |-> ast_const, new_const |-> new_const,
              negs |-> <<>>]]

\* lines 41-61: the operand is a Cast
double_cast_arm(x, k) ==
    LET ot_ty == node_type(x, k)
        ie_ty == node_type(x, k - 2)
        it_ty == node_type(x, k - 1)
    IN  IF it_ty = ot_ty
        THEN Outcome(x, k, "assert", k, "assert", ie_ty, it_ty, NoLit, NoConst, NoConst)
        ELSE LET a == check_double_cast(simple_ty(ie_ty), simple_ty(it_ty), simple_ty(ot_ty))
             IN  IF a = RemoveBoth
                 THEN Outcome(Expr(x.leaf, RemoveAt(RemoveAt(x.casts, k), k - 1)), k - 1,
                              "none", k, a, ie_ty, it_ty, NoLit, NoConst, NoConst)
                 ELSE IF a = RemoveInner
                 THEN Outcome(Expr(x.leaf, RemoveAt(x.casts, k - 1)), k,
                              "none", k, a, ie_ty, it_ty, NoLit, NoConst, NoConst)
                 ELSE Outcome(x, k + 1, "none", k, a, ie_ty, it_ty, NoLit, NoConst, NoConst)

\* lines 63-96: the operand is a literal or a negated literal (k = 1)
literal_arm(x, checks) ==
    LET ot_ty == node_type(x, 1)
        new_lit == replace_suffix(x.leaf, ot_ty)
    IN  IF ~new_lit.some
        THEN Outcome(x, 2, "none", 1, "lit_declined", "", "", new_lit, NoConst, NoConst)
        ELSE LET new_expr == Expr(LitLeaf(x.leaf.kind, ot_ty, new_lit.val, new_lit.suf), <<>>)
                 ast_const == eval_const(Expr(x.leaf, <<ot_ty>>), checks)
                 new_const == IF ast_const.panic # "none" THEN NoConst
                              ELSE eval_const(new_expr, checks)
                 panic == IF ast_const.panic # "none" THEN ast_const.panic
                          ELSE new_const.panic
             IN  IF panic # "none"
                 THEN Outcome(x, 1, panic, 1, "panic", "", "", new_lit, ast_const, new_const)
                 ELSE IF consts_agree(new_const, ast_const)
                 THEN Outcome(Expr(new_expr.leaf, RemoveAt(x.casts, 1)), 1,
                              "none", 1, "lit_rewritten", "", "", new_lit, ast_const, new_const)
                 ELSE Outcome(x, 2, "none", 1, "lit_kept", "", "", new_lit, ast_const, new_const)

\* the arms of lines 63-96
LitRules == {"lit_declined", "lit_rewritten", "lit_kept", "panic"}

\* the UnaryNegate evaluations of a visit of `-lit as T`: eval_const(ast)'s,
\* then eval_const(new_expr)'s unless the first one panicked
negations(x, o, checks) ==
    IF x.leaf.kind # "NegLit" \/ ~o.did.new_lit.some THEN <<>>
    ELSE LET ic == eval_lit(x.leaf)
             nc == eval_lit(LitLeaf("Lit", "", o.did.new_lit.val, o.did.new_lit.suf))
             first == [operand |-> ic, result |-> eval_neg(ic, checks)]
         IN  IF first.result.panic # "none" THEN <<first>>
             ELSE <<first, [operand |-> nc, result |-> eval_neg(nc, checks)]>>

transform_node(x, k, checks) ==
    LET oe_ty == node_type(x, k - 1)
        ot_ty == node_type(x, k)
        o == IF same_ty(oe_ty, ot_ty)
             THEN Outcome(Expr(x.leaf, RemoveAt(x.casts, k)), k,
                          "none", k, "redundant", "", "", NoLit, NoConst, NoConst)
             ELSE IF k > 1 THEN double_cast_arm(x, k)
             ELSE IF x.leaf.kind \in {"Lit", "NegLit"} THEN literal_arm(x, checks)
             ELSE Outcome(x, k + 1, "none", k, "other", "", "", NoLit, NoConst, NoConst)
    IN  [o EXCEPT !.did.before = x, !.did.oe_ty = oe_ty, !.did.ot_ty = ot_ty,
                  !.did.negs = IF o.did.rule \in LitRules THEN negations(x, o, checks)
                               ELSE <<>>]

----------------------------------------------------------------------------
(* The traversal (mut_visit_match_with): every Cast node once per run,     *)
(* inner nodes before outer nodes; a panic ends it.                        *)

VisitNode ==
    /\ run \in {1, 2}
    /\ panicked = "none"
    /\ pos <= Len(ast.casts)
    /\ LET o == transform_node(ast, pos, overflow_checks)
       IN  /\ ast' = o.ast
           /\ pos' = o.next
           /\ panicked' = o.panic
           /\ last' = o.did
    /\ UNCHANGED <<input, out1, run, overflow_checks>>
    /\ UNCHANGED castVars

\* the first run is over; the transform is run again on what it produced
EndRun ==
    /\ run = 1
    /\ panicked = "none"
    /\ pos > Len(ast.casts)
    /\ run' = 2
    /\ pos' = 1
    /\ out1' = ast
    /\ UNCHANGED <<ast, input, overflow_checks, panicked, last>>
    /\ UNCHANGED castVars

Finish ==
    /\ run = 2
    /\ panicked = "none"
    /\ pos > Len(ast.casts)
    /\ run' = 3
    /\ UNCHANGED <<ast, input, out1, pos, overflow_checks, panicked, last>>
    /\ UNCHANGED castVars

Next == VisitNode \/ EndRun \/ Finish

IdleCast ==
    /\ e_ty = Other
    /\ t1_ty = Other
    /\ t2_ty = Other
    /\ ptr_width = 64
    /\ v = {}
    /\ pc = "idle"
    /\ inner_cast = Unknown
    /\ outer_cast = Unknown
    /\ action = "none"
    /\ orig_val = {}
    /\ new_val = {}

IdleTransform ==
    /\ ast = Expr(VarLeaf("bool"), <<>>)
    /\ input = ast
    /\ out1 = ast
    /\ run = 3
    /\ pos = 1
    /\ overflow_checks = TRUE
    /\ panicked = "none"
    /\ last = NoVisit

StartTransform ==
    /\ input = ast
    /\ out1 = ast
    /\ run = 1
    /\ pos = 1
    /\ panicked = "none"
    /\ last = NoVisit

----------------------------------------------------------------------------
(* Spec: chains of up to MaxDepth casts over an opaque operand             *)

ChainTys ==
    {"isize", "usize", "i8", "u8", "i16", "i32", "u32", "i64",
     "f32", "*const u8", "*mut u8", "bool"}

RECURSIVE Chains(_)
Chains(n) ==
    IF n = 0 THEN {<<>>}
    ELSE LET shorter == Chains(n - 1)
         IN  shorter \cup {Append(c, t) : c \in {s \in shorter : Len(s) = n - 1}, t \in ChainTys}

Init ==
    /\ IdleCast
    /\ \E t \in ChainTys, c \in Chains(MaxDepth) \ {<<>>} : ast = Expr(VarLeaf(t), c)
    /\ overflow_checks = TRUE
    /\ StartTransform

Spec == Init /\ [][Next]_vars

----------------------------------------------------------------------------
(* SpecLit: `lit as T` and `-lit as T` for integer literals                *)

\* 0, 1, 200, 300, 40000, and 2^k - 1 and 2^k around every integer width
LitVals ==
    {{}, {0}, {3, 6, 7}, {2, 3, 5, 8}, {6, 10, 11, 12, 15}}
        \cup {Below(k) : k \in {7, 8, 15, 16, 31, 32, 63, 64, 127, 128}}
        \cup {{k} : k \in {7, 8, 15, 16, 31, 32, 63, 64, 127}}

LitTargets == Tys \ FloatTys

\* A suffixed literal has its suffix's type; inference gives an unsuffixed
\* one any integer type.  Negation applies to signed types only.
LitLeaves ==
    {LitLeaf(kind, t, val, suf) :
        kind \in {"Lit", "NegLit"}, t \in IntTys \cup UintTys, val \in LitVals,
        suf \in IntTys \cup UintTys \cup {NoSuffix}}

InitLit ==
    /\ IdleCast
    /\ \E l \in LitLeaves, t \in LitTargets :
          /\ l.suf # NoSuffix => l.suf = l.ty
          /\ l.kind = "NegLit" => l.ty \in IntTys
          /\ ast = Expr(l, <<t>>)
    /\ overflow_checks \in BOOLEAN
    /\ StartTransform

SpecLit == InitLit /\ [][Next]_vars

----------------------------------------------------------------------------
(* SpecCast *)

InitCast ==
    /\ e_ty \in SimpleTys
    /\ t1_ty \in SimpleTys
    /\ t2_ty \in SimpleTys
    /\ ptr_width \in PtrWidths
    /\ v \in IF {e_ty, t1_ty, t2_ty} \subseteq IntLikeTys
             THEN ValuesOf(e_ty, ptr_width)
             ELSE {{}}
    /\ pc = "check"
    /\ inner_cast = Unknown
    /\ outer_cast = Unknown
    /\ action = "none"
    /\ orig_val = {}
    /\ new_val = {}
    /\ IdleTransform

\* check_double_cast called at line 51 of transform
CheckDoubleCast ==
    /\ pc = "check"
    /\ inner_cast' = cast_kind(e_ty, t1_ty)
    /\ outer_cast' = cast_kind(t1_ty, t2_ty)
    /\ action' = check_double_cast(e_ty, t1_ty, t2_ty)
    /\ pc' = "apply"
    /\ UNCHANGED <<e_ty, t1_ty, t2_ty, ptr_width, v, orig_val, new_val>>
    /\ UNCHANGED transformVars

DoubleCastValue == as_cast(as_cast(v, e_ty, t1_ty, ptr_width), t1_ty, t2_ty, ptr_width)

Valued == {e_ty, t1_ty, t2_ty} \subseteq IntLikeTys

\* `*ast = ie.clone()`
ApplyRemoveBoth ==
    /\ pc = "apply"
    /\ action = RemoveBoth
    /\ pc' = "done"
    /\ orig_val' = IF Valued THEN DoubleCastValue ELSE {}
    /\ new_val' = v
    /\ UNCHANGED <<e_ty, t1_ty, t2_ty, ptr_width, v, inner_cast, outer_cast, action>>
    /\ UNCHANGED transformVars

\* `*ast = mk().cast_expr(ie, ot)`
ApplyRemoveInner ==
    /\ pc = "apply"
    /\ action = RemoveInner
    /\ pc' = "done"
    /\ orig_val' = IF Valued THEN DoubleCastValue ELSE {}
    /\ new_val' = IF Valued THEN as_cast(v, e_ty, t2_ty, ptr_width) ELSE {}
    /\ UNCHANGED <<e_ty, t1_ty, t2_ty, ptr_width, v, inner_cast, outer_cast, action>>
    /\ UNCHANGED transformVars

\* `DoubleCastAction::KeepBoth => { }`
ApplyKeepBoth ==
    /\ pc = "apply"
    /\ action = KeepBoth
    /\ pc' = "done"
    /\ orig_val' = IF Valued THEN DoubleCastValue ELSE {}
    /\ new_val' = IF Valued THEN DoubleCastValue ELSE {}
    /\ UNCHANGED <<e_ty, t1_ty, t2_ty, ptr_width, v, inner_cast, outer_cast, action>>
    /\ UNCHANGED transformVars

NextCast == CheckDoubleCast \/ ApplyRemoveBoth \/ ApplyRemoveInner \/ ApplyKeepBoth

SpecCast == InitCast /\ [][NextCast]_vars

----------------------------------------------------------------------------
(* C1: for every triple of integer-like types, both pointer widths and      *)
(* every value of the source type, the double cast ((v as t1) as t2) and   *)
(* the replacement check_double_cast chooses (v for RemoveBoth, v as t2    *)
(* for RemoveInner) compute the same value.  Checked under SpecCast.       *)
C1_FusionSound ==
    (pc = "done" /\ Valued) => orig_val = new_val

----------------------------------------------------------------------------
(* C5: whenever one of the three types is Other, or the inner or the outer *)
(* cast kind is Unknown, check_double_cast returns KeepBoth.  Checked      *)
(* under SpecCast.                                                         *)
C5_UnclassifiedKept ==
    (/\ pc \in {"apply", "done"}
     /\ \/ Other \in {e_ty, t1_ty, t2_ty}
        \/ inner_cast = Unknown
        \/ outer_cast = Unknown)
        => action = KeepBoth

----------------------------------------------------------------------------
(* C9: the cast kind of Int(w, s) into Size(_) or Pointer is Extend(s)     *)
(* when w <= 16, Truncate when w >= 64, and otherwise ToPointer(s), s the  *)
(* signedness of the source integer.  Checked under SpecCast on both casts *)
(* of the triple.                                                          *)
IntoPointerKind(from_ty) ==
    IF from_ty.w <= 16 THEN Extend(from_ty.s)
    ELSE IF from_ty.w >= 64 THEN Truncate
    ELSE ToPointer(from_ty.s)

C9_IntoPointerBySourceSign ==
    pc \in {"apply", "done"} =>
        /\ (e_ty.tag = "Int" /\ t1_ty.tag \in {"Size", "Pointer"})
              => inner_cast = IntoPointerKind(e_ty)
        /\ (t1_ty.tag = "Int" /\ t2_ty.tag \in {"Size", "Pointer"})
              => outer_cast = IntoPointerKind(t1_ty)

----------------------------------------------------------------------------
(* C2: the second run of the transform changes nothing: from the end of    *)
(* the first run on, the expression is the one the first run produced.     *)
(* Checked under Spec.                                                     *)
C2_SecondRunChangesNothing ==
    run \in {2, 3} => ast = out1

(* Supporting lemma for C2: on a chain of at most two casts over an        *)
(* operand that is not a literal, the second run changes nothing; the      *)
(* first chains a second run rewrites have three casts.                    *)
C2_SecondRunChangesNothingUpToTwoCasts ==
    (Len(input.casts) <= 2 /\ input.leaf.kind = "Var")
        => (run \in {2, 3} => ast = out1)

\* both runs are over on a chain of two casts that the first run rewrote
C2_Witness ==
    /\ run = 3
    /\ Len(input.casts) = 2
    /\ input.leaf.kind = "Var"
    /\ out1 # input
    /\ ast = out1

----------------------------------------------------------------------------
(* C7: `assert!(it_ty != ot_ty)` never fails: whenever a visit reaches the *)
(* double-cast arm, the inner cast's target type differs from the outer    *)
(* cast's, and no run ends in the assertion's panic.  Checked under Spec.  *)
DoubleCastRules == {RemoveBoth, RemoveInner, KeepBoth, "assert"}

C7_AssertionHolds ==
    /\ panicked # "assert"
    /\ last.rule \in DoubleCastRules => last.it_ty # last.ot_ty

\* a visit went through the double-cast arm
C7_Witness ==
    /\ last.rule \in DoubleCastRules
    /\ last.k >= 2
    /\ last.oe_ty # last.ot_ty

----------------------------------------------------------------------------
(* C10: whenever RemoveBoth replaces `e as T1 as T2` by e, the static type *)
(* of e is the static type T2.  Checked under Spec.                        *)
C10_RemoveBothKeepsStaticType ==
    last.rule = RemoveBoth => last.ie_ty = last.ot_ty

----------------------------------------------------------------------------
(* Representability of a literal's value in an integer type, isize and     *)
(* usize taken as i16 and u16: every 1 bit lies below the sign bit of a    *)
(* signed type, inside the width of an unsigned one.                       *)
ValueBits(ty) ==
    LET w == IF ty \in {"isize", "usize"} THEN 16 ELSE ty_bit_width(ty)
    IN  IF ty \in IntTys THEN w - 1 ELSE w

Representable(val, ty) == \A b \in val : b < ValueBits(ty)

IntegerTys == IntTys \cup UintTys

\* the literal arm ran replace_suffix on a target integer type
SuffixTried == last.rule \in LitRules /\ last.ot_ty \in IntegerTys

(* C3: replace_suffix(i, T) returns a literal iff i is representable in T  *)
(* (isize, usize as i16, u16), and the literal it returns has value i and  *)
(* suffix T.  Checked under SpecLit.                                       *)
C3_SuffixIffRepresentable ==
    SuffixTried =>
        /\ last.new_lit.some <=> Representable(last.before.leaf.val, last.ot_ty)
        /\ last.new_lit.some =>
              /\ last.new_lit.val = last.before.leaf.val
              /\ last.new_lit.suf = last.ot_ty

\* replace_suffix re-suffixed a literal that is not zero
C3_Witness ==
    /\ SuffixTried
    /\ last.new_lit.some
    /\ last.before.leaf.val # {}
    /\ last.before.leaf.suf # last.ot_ty

----------------------------------------------------------------------------
(* C4: whenever replace_suffix(literal, T) succeeds on `literal as T`,     *)
(* eval_const of the rewritten literal equals eval_const of the cast       *)
(* expression.  Checked under SpecLit.                                     *)
ConstsEqual ==
    /\ last.ast_const.some
    /\ last.new_const.some
    /\ last.ast_const.tag = last.new_const.tag
    /\ last.ast_const.bits = last.new_const.bits

C4_RewrittenLiteralAgrees ==
    (SuffixTried /\ last.before.leaf.kind = "Lit" /\ last.new_lit.some)
        => ConstsEqual

(* C4 as amended: the same, for a literal whose value is representable in  *)
(* its own declared suffix type (isize, usize as i16, u16), or that has no *)
(* suffix.                                                                 *)
FitsOwnSuffix(lit) == lit.suf = NoSuffix \/ Representable(lit.val, lit.suf)

C4_RewrittenLiteralAgreesWhenInRange ==
    (/\ SuffixTried
     /\ last.before.leaf.kind = "Lit"
     /\ last.new_lit.some
     /\ FitsOwnSuffix(last.before.leaf))
        => ConstsEqual

\* a suffixed literal in the range of its suffix was re-suffixed
C4_Witness ==
    /\ SuffixTried
    /\ last.before.leaf.kind = "Lit"
    /\ last.new_lit.some
    /\ last.before.leaf.suf # NoSuffix
    /\ FitsOwnSuffix(last.before.leaf)
    /\ last.before.leaf.val # {}
    /\ ConstsEqual

----------------------------------------------------------------------------
(* C6: a visit of `literal as T` or `-literal as T` through the literal    *)
(* arm changes the node only when both constants were produced and are     *)
(* equal, and then the node becomes the re-suffixed literal (negated as    *)
(* the operand was); otherwise the node is left as it was.  Checked under  *)
(* SpecLit.                                                                *)
C6_RewriteOnlyOnEqualConstants ==
    last.rule \in LitRules =>
        IF ConstsEqual
        THEN ast = Expr(LitLeaf(last.before.leaf.kind, last.ot_ty,
                                last.before.leaf.val, last.ot_ty), <<>>)
        ELSE ast = last.before

\* `-literal as T` was replaced by `-literal_T`
C6_Witness ==
    /\ last.rule \in LitRules
    /\ last.before.leaf.kind = "NegLit"
    /\ last.before.leaf.val # {}
    /\ ast # last.before
    /\ ConstsEqual

----------------------------------------------------------------------------
(* x + y modulo 2^128: bit k of the sum is x's, y's and the carry into k  *)
(* added up; a carry enters k when some lower bit j generates one (both   *)
(* bits 1) and every bit between j and k propagates it (one bit 1).       *)
CarryInto(x, y, k) ==
    \E j \in x \cap y :
        /\ j < k
        /\ \A m \in (j + 1) .. (k - 1) : m \in x \/ m \in y

AddMod(x, y) == {k \in Bits128 : (k \in x) # ((k \in y) # CarryInto(x, y, k))}

IsNegative(c) == c.tag = "Int" /\ 127 \in c.bits

\* r is the exact negation of c: r + c = 0, and their signs differ
ExactNegation(c, r) ==
    /\ r.tag = "Int"
    /\ AddMod(c.bits, r.bits) = {}
    /\ c.bits # {} => IsNegative(r) # IsNegative(c)

(* C8: every UnaryNegate eval_const evaluates yields the exact negation of *)
(* its operand or no result, never a wrapped value or a panic.  Checked    *)
(* under SpecLit.                                                          *)
C8_NegationExactOrNone ==
    \A i \in DOMAIN last.negs :
        LET n == last.negs[i]
        IN  /\ n.result.panic = "none"
            /\ n.result.some => ExactNegation(n.operand, n.result)

----------------------------------------------------------------------------
(* The four-rule decision table, on the names of the two cast kinds, the   *)
(* flag the outer kind carries, and the source and target types.           *)
CastKinds ==
    {Extend(TRUE), Extend(FALSE), Truncate, SameWidth, FromPointer(TRUE),
     FromPointer(FALSE), ToPointer(TRUE), ToPointer(FALSE), Unknown}

Rule1Pairs == {<<"SameWidth", "SameWidth">>, <<"Extend", "Truncate">>}

Rule2Pairs ==
    {<<"Extend", "Extend">>, <<"SameWidth", "Extend">>,
     <<"SameWidth", "FromPointer">>, <<"SameWidth", "ToPointer">>}

Rule3Outer == {"SameWidth", "Truncate"}

SourceSigned(ty) == ty.tag \in {"Float32", "Float64"} \/ (ty.tag \in {"Int", "Size"} /\ ty.s)

DecisionTable(inner, outer, source, target) ==
    LET pair == <<inner.kind, outer.kind>>
    IN  CASE pair \in Rule1Pairs /\ source = target -> RemoveBoth
          [] /\ ~(pair \in Rule1Pairs /\ source = target)
             /\ pair \in Rule2Pairs
             /\ outer.s = SourceSigned(source) -> RemoveInner
          [] /\ ~(pair \in Rule1Pairs /\ source = target)
             /\ ~(pair \in Rule2Pairs /\ outer.s = SourceSigned(source))
             /\ outer.kind \in Rule3Outer -> RemoveInner
          [] OTHER -> KeepBoth

I32 == Int(32, TRUE)

(* C11: check_double_cast is the four-rule decision table applied in       *)
(* priority order: the action returned for the triple is the table's for   *)
(* the two kinds computed, the match agrees with the table on every pair   *)
(* of cast kinds for the triple's source and target, and i32 -> i64 -> i32 *)
(* gives RemoveBoth, u8 -> u16 -> u32 and i32 -> i8 -> u8 RemoveInner,     *)
(* i64 -> f32 -> i32 KeepBoth.  Checked under SpecCast.                    *)
C11_ActionIsDecisionTable ==
    pc = "apply" =>
        /\ action = DecisionTable(inner_cast, outer_cast, e_ty, t2_ty)
        /\ \A i \in CastKinds, o \in CastKinds :
              double_cast_action(i, o, e_ty, t2_ty) = DecisionTable(i, o, e_ty, t2_ty)
        /\ <<e_ty, t1_ty, t2_ty>> = <<I32, Int(64, TRUE), I32>> => action = RemoveBoth
        /\ <<e_ty, t1_ty, t2_ty>> = <<Int(8, FALSE), Int(16, FALSE), Int(32, FALSE)>>
              => action = RemoveInner
        /\ <<e_ty, t1_ty, t2_ty>> = <<I32, Int(8, TRUE), Int(8, FALSE)>>
              => action = RemoveInner
        /\ <<e_ty, t1_ty, t2_ty>> = <<Int(64, TRUE), Float32, I32>> => action = KeepBoth

\* check_double_cast returned RemoveBoth for i32 -> i64 -> i32
C11_Witness ==
    /\ pc = "apply"
    /\ <<e_ty, t1_ty, t2_ty>> = <<I32, Int(64, TRUE), I32>>
    /\ inner_cast = Extend(TRUE)
    /\ outer_cast = Truncate
    /\ action = RemoveBoth

====
